---- MODULE Spec2Model ----
(***************************************************************************)
(* Event_App: the FastAPI handlers of main.py over the two tables of       *)
(* models.py (events, rsvps), each request running in its own SQLAlchemy   *)
(* session obtained from database.get_db.                                  *)
(*                                                                         *)
(* A handler is a sequence of steps, one per round trip to the store (a    *)
(* query, a commit, a refresh) or to the image host (the upload); the      *)
(* local code that follows a round trip belongs to its step.  Under Spec   *)
(* and SpecEvents one request is served at a time; under SpecConc and      *)
(* SpecSessions the steps of the requests of several clients interleave.   *)
(*                                                                         *)
(* The created_at columns are filled by the store (func.now()) and read    *)
(* by no handler; they are left out of the rows.                           *)
(***************************************************************************)
EXTENDS Integers, Sequences, FiniteSets, TLC

\* ------------------------------------------------------------------ bounds
NumClients == 2      \* clients whose requests may be in flight together
MaxEvents == 2       \* rows ever inserted into events, under SpecEvents
MaxRsvpEvents == 1   \* rows ever inserted into events, under Spec and SpecConc
MaxRsvps == 3        \* rows ever inserted into rsvps

Clients == 1..NumClients
SeqClients == {1}

\* ------------------------------------------------------------- input sets
Names == {"Ann", "Bob"}
Emails == {"a@x.org", "b@x.org"}
Title == "title"
Description == "description"
Location == "location"
Flyers == {"nofile", "file"}

\* strings are sequences of characters
D1 == <<"2","0","2","4","-","0","1","-","0","1"," ","1","0",":","0","0">>
D2 == <<"2","0","2","5","-","6","-","1"," ","9",":","5">>
D3 == <<"2","0","2","4","-","0","2","-","2","9"," ","2","3",":","5","9">>
B1 == <<"2","0","2","5","-","1","3","-","4","0"," ","9","9",":","9","9">>
B2 == <<"2","0","2","4","-","0","6","-","0","1">>
B3 == <<"2","0","2","5","-","0","2","-","2","9"," ","1","0",":","0","0">>
DateInputs == {D1, D2, D3, B1, B2, B3}
NoString == <<>>

\* ----------------------------------------------------- datetime.strptime
Digits == {"0","1","2","3","4","5","6","7","8","9"}

DigitVal(c) ==
  CASE c = "0" -> 0 [] c = "1" -> 1 [] c = "2" -> 2 [] c = "3" -> 3
    [] c = "4" -> 4 [] c = "5" -> 5 [] c = "6" -> 6 [] c = "7" -> 7
    [] c = "8" -> 8 [] c = "9" -> 9

\* the character at position i, or "$" past the end
CharAt(s, i) == IF i >= 1 /\ i <= Len(s) THEN s[i] ELSE "$"

\* length of the run of digits at position i, at most max
RECURSIVE DigitRun(_, _, _)
DigitRun(s, i, max) ==
  IF max = 0 \/ CharAt(s, i) \notin Digits THEN 0
  ELSE 1 + DigitRun(s, i + 1, max - 1)

\* length of the run of blanks at position i (the format's " " is \s+)
RECURSIVE BlankRun(_, _)
BlankRun(s, i) == IF CharAt(s, i) = " " THEN 1 + BlankRun(s, i + 1) ELSE 0

RECURSIVE NumAt(_, _, _)
NumAt(s, i, k) ==
  IF k = 0 THEN 0 ELSE NumAt(s, i, k - 1) * 10 + DigitVal(s[i + k - 1])

IsLeap(y) == (y % 4 = 0 /\ y % 100 # 0) \/ y % 400 = 0

DaysInMonth(y, m) ==
  IF m = 2 THEN (IF IsLeap(y) THEN 29 ELSE 28)
  ELSE IF m \in {4, 6, 9, 11} THEN 30 ELSE 31

ValueError == [error |-> "ValueError"]

\* a field of one or two digits: the two-digit alternatives of the
\* directive's pattern accept lo2..hi2, the one-digit alternative lo1..9
FieldOk(k, v, lo2, hi2, lo1) ==
  \/ k = 2 /\ v >= lo2 /\ v <= hi2
  \/ k = 1 /\ v >= lo1

\* datetime.strptime(s, "%Y-%m-%d %H:%M"): the parsed datetime or ValueError
strptime(s) ==
  LET ky == DigitRun(s, 1, 4)
      pm == 6
      km == DigitRun(s, pm, 2)
      pd == pm + km + 1
      \* %d also accepts a blank followed by one digit 1..9
      padded == CharAt(s, pd) = " " /\ DigitRun(s, pd + 1, 1) = 1
      kd == IF padded THEN 1 ELSE DigitRun(s, pd, 2)
      sd == IF padded THEN pd + 1 ELSE pd
      pw == sd + kd
      kw == BlankRun(s, pw)
      ph == pw + kw
      kh == DigitRun(s, ph, 2)
      pn == ph + kh + 1
      kn == DigitRun(s, pn, 2)
      matched ==
        /\ ky = 4
        /\ CharAt(s, 5) = "-"
        /\ km >= 1 /\ FieldOk(km, NumAt(s, pm, km), 1, 12, 1)
        /\ CharAt(s, pm + km) = "-"
        /\ kd >= 1 /\ FieldOk(kd, NumAt(s, sd, kd), 1, 31, 1)
        /\ kw >= 1
        /\ kh >= 1 /\ FieldOk(kh, NumAt(s, ph, kh), 0, 23, 0)
        /\ CharAt(s, ph + kh) = ":"
        /\ kn >= 1 /\ FieldOk(kn, NumAt(s, pn, kn), 0, 59, 0)
        /\ pn + kn = Len(s) + 1
  IN IF ~matched THEN ValueError
     ELSE LET y == NumAt(s, 1, 4)
              m == NumAt(s, pm, km)
              d == NumAt(s, sd, kd)
          IN IF y < 1 \/ d > DaysInMonth(y, m) THEN ValueError
             ELSE [year |-> y, month |-> m, day |-> d,
                   hour |-> NumAt(s, ph, kh), minute |-> NumAt(s, pn, kn)]

\* the order of two datetimes
DateKey(d) == (((d.year * 12 + d.month) * 31 + d.day) * 24 + d.hour) * 60 + d.minute
DateLeq(a, b) == DateKey(a) <= DateKey(b)

\* ------------------------------------------------------------------ rows
\* models.Event: the mapped columns of the events table
EventColumns == {"id", "title", "description", "date", "location", "flyer_url"}
\* models.RSVP: the mapped columns of the rsvps table
RSVPColumns == {"id", "event_id", "name", "email"}
\* schemas.RSVPResponse and schemas.EventResponse: the fields of a response
RSVPResponse == {"id", "event_id", "name", "email"}
EventResponse == {"id", "title", "description", "date", "location", "flyer_url", "rsvps"}

NoSession == 0
NoResponse == [status |-> 0, detail |-> "", body |-> <<>>]
NoRequest ==
  [op |-> "none", event_id |-> 0, name |-> "", email |-> "", date |-> NoString,
   flyer |-> "", deadline |-> <<>>]
NoLocals == [event |-> <<>>, rsvp |-> <<>>, date |-> <<>>, flyer_url |-> "None"]

VARIABLES
  events,       \* the rows of table events
  rsvps,        \* the rows of table rsvps
  nextEventId,  \* the sequence behind events.id
  nextRsvpId,   \* the sequence behind rsvps.id
  sessions,     \* the sessions made by SessionLocal() and not yet closed
  pc,           \* per client: the step its request is at, or "idle"
  req,          \* per client: the request being served
  db,           \* per client: the session get_db yielded to the handler
  loc,          \* per client: the handler's local variables
  resp,         \* per client: the response of the handler
  wrote,        \* per client: the request has changed a table
  hist          \* per (event_id, email): what the completed requests did

vars == <<events, rsvps, nextEventId, nextRsvpId, sessions, pc, req, db, loc,
          resp, wrote, hist>>

\* --------------------------------------------------------------- queries
\* db.query(Event).filter(Event.id == event_id).first(): <<row>> or <<>>
FindEvent(rows, event_id) ==
  IF \E e \in rows : e.id = event_id
  THEN <<CHOOSE e \in rows : e.id = event_id>>
  ELSE <<>>

\* faulty variant: the filter leaves out RSVP.email == email
MatchingRsvpsAnyEmail(rows, event_id, email) ==
  {r \in rows : r.event_id = event_id}

\* db.query(RSVP).filter(RSVP.event_id == event_id, RSVP.email == email)
MatchingRsvps(rows, event_id, email) ==
  {r \in rows : r.event_id = event_id /\ r.email = email}

\* db.query(RSVP).filter(RSVP.event_id == event_id)
RsvpsOfEvent(rows, event_id) == {r \in rows : r.event_id = event_id}

\* the orders in which the store may return a set of rows
Orderings(S) ==
  {f \in [1..Cardinality(S) -> S] : \A i, j \in 1..Cardinality(S) : i # j => f[i] # f[j]}

\* faulty variant: ORDER BY events.date ASC
OrderByDateAsc(S) ==
  {f \in Orderings(S) : \A i \in 1..(Len(f) - 1) : DateLeq(f[i].date, f[i + 1].date)}

\* ORDER BY events.date DESC: the orders the store may return
OrderByDateDesc(S) ==
  {f \in Orderings(S) : \A i \in 1..(Len(f) - 1) : DateLeq(f[i + 1].date, f[i].date)}

\* -------------------------------------------------------------- responses
HTTPException(code, text) == [status |-> code, detail |-> text, body |-> <<>>]

\* the framework validates what the handler returned against response_model
Serialize(fields, objs) ==
  IF \A i \in 1..Len(objs) : fields \subseteq DOMAIN objs[i]
  THEN [status |-> 200, detail |-> "",
        body |-> [i \in 1..Len(objs) |-> [f \in fields |-> objs[i][f]]]]
  ELSE [status |-> 500, detail |-> "ResponseValidationError", body |-> <<>>]

\* an uncaught exception of the store
StoreError == [status |-> 500, detail |-> "StoreError", body |-> <<>>]

\* an instance with one more attribute set on it
WithAttr(obj, name, val) ==
  [f \in DOMAIN obj \cup {name} |-> IF f = name THEN val ELSE obj[f]]

\* the flush of a commit writes the mapped columns of an instance
Flush(columns, obj) == [c \in columns |-> obj[c]]

\* UPDATE ... WHERE id = row.id
UpdateRow(rows, row) == {IF r.id = row.id THEN row ELSE r : r \in rows}

\* faulty variant: the delete is never flushed
DeleteNothing(rows, row) == rows

\* faulty variant: DELETE FROM rsvps WHERE event_id = row.event_id
DeleteRowsOfEvent(rows, row) == {r \in rows : r.event_id # row.event_id}

\* DELETE FROM rsvps WHERE id = row.id
DeleteRow(rows, row) == {r \in rows : r.id # row.id}

\* ------------------------------------------------------------- sessions
\* SessionLocal(): a session distinct from every open one
SessionLocal(open) == CHOOSE s \in 1..(NumClients + 1) : s \notin open /\ \A t \in 1..(s - 1) : t \in open

\* faulty variant: db.close() after the yield, without try/finally
CloseSessionOnSuccess(open, s, status) == IF status = 200 THEN open \ {s} ELSE open

\* get_db's finally: db.close(), whatever the handler's outcome was
CloseSession(open, s, status) == open \ {s}

InFlight(op) == Cardinality({q \in Clients : req[q].op = op})

Entry(op) ==
  CASE op = "create_event" -> "create_event_parse"
    [] op = "get_events" -> "get_events_query"
    [] op = "get_event" -> "get_event_query"
    [] op = "create_rsvp" -> "create_rsvp_check_event"
    [] op = "get_event_rsvps" -> "get_event_rsvps_check_event"
    [] op = "set_rsvp_deadline" -> "set_rsvp_deadline_check_event"
    [] op = "get_rsvp_status" -> "get_rsvp_status_check_event"
    [] op = "cancel_rsvp" -> "cancel_rsvp_check_event"

\* the requests a client may send, on event ids 1..maxId with the given form
\* fields
RequestsOf(maxId, dates, names, emails) ==
  LET ids == 1..maxId IN
       {[NoRequest EXCEPT !.op = "create_event", !.date = d, !.flyer = f] :
          d \in dates, f \in Flyers}
  \cup {[NoRequest EXCEPT !.op = "get_events"]}
  \cup {[NoRequest EXCEPT !.op = o, !.event_id = e] :
          o \in {"get_event", "get_event_rsvps"}, e \in ids}
  \cup {[NoRequest EXCEPT !.op = "create_rsvp", !.event_id = e, !.name = n, !.email = m] :
          e \in ids, n \in names, m \in emails}
  \cup {[NoRequest EXCEPT !.op = "set_rsvp_deadline", !.event_id = e, !.deadline = <<d>>] :
          e \in ids, d \in {strptime(D2)}}
  \cup {[NoRequest EXCEPT !.op = o, !.event_id = e, !.email = m] :
          o \in {"get_rsvp_status", "cancel_rsvp"}, e \in ids, m \in emails}

Operations ==
  {"create_event", "get_events", "get_event", "create_rsvp", "get_event_rsvps",
   "set_rsvp_deadline", "get_rsvp_status", "cancel_rsvp"}

\* those of the operations ops
Requests(ops, maxId, dates, names, emails) ==
  {r \in RequestsOf(maxId, dates, names, emails) : r.op \in ops}

MaxId == IF MaxEvents > MaxRsvpEvents THEN MaxEvents + 1 ELSE MaxRsvpEvents + 1
Pairs == (1..MaxId) \X Emails
NoHistory == [live |-> FALSE, cancelled |-> FALSE]

Init ==
  /\ events = {}
  /\ rsvps = {}
  /\ nextEventId = 1
  /\ nextRsvpId = 1
  /\ sessions = {}
  /\ pc = [p \in Clients |-> "idle"]
  /\ req = [p \in Clients |-> NoRequest]
  /\ db = [p \in Clients |-> NoSession]
  /\ loc = [p \in Clients |-> NoLocals]
  /\ resp = [p \in Clients |-> NoResponse]
  /\ wrote = [p \in Clients |-> FALSE]
  /\ hist = [x \in Pairs |-> NoHistory]

\* ----------------------------------------------------------- step helpers
\* the handler goes on to its next step
Goto(p, label) ==
  /\ pc' = [pc EXCEPT ![p] = label]
  /\ resp' = resp

\* the handler returns or raises: the response is fixed
Respond(p, r) ==
  /\ pc' = [pc EXCEPT ![p] = "responded"]
  /\ resp' = [resp EXCEPT ![p] = r]

StoreUnchanged == UNCHANGED <<events, rsvps, nextEventId, nextRsvpId>>

\* a step of the handler of p: the session and the request stay, and wrote[p]
\* records whether the step changed a table
FrameStep(p) ==
  /\ UNCHANGED <<sessions, req, db, hist>>
  /\ wrote' = [wrote EXCEPT ![p] = wrote[p] \/ events' # events \/ rsvps' # rsvps]

ReadStep(p) == StoreUnchanged /\ FrameStep(p)

\* ---------------------------------------------------------------- get_db
\* a request arrives: get_db makes the session and the handler is entered
Request(p, R, maxEvents) ==
  /\ pc[p] = "idle"
  /\ \E r \in R :
       /\ r.op = "create_event" => nextEventId + InFlight("create_event") <= maxEvents
       /\ r.op = "create_rsvp" => nextRsvpId + InFlight("create_rsvp") <= MaxRsvps
       /\ req' = [req EXCEPT ![p] = r]
       /\ pc' = [pc EXCEPT ![p] = Entry(r.op)]
  /\ db' = [db EXCEPT ![p] = SessionLocal(sessions)]
  /\ sessions' = sessions \cup {SessionLocal(sessions)}
  /\ loc' = [loc EXCEPT ![p] = NoLocals]
  /\ resp' = [resp EXCEPT ![p] = NoResponse]
  /\ wrote' = [wrote EXCEPT ![p] = FALSE]
  /\ StoreUnchanged
  /\ UNCHANGED hist

\* what a completed request on (event_id, email) leaves in hist
Recorded(h, op, status) ==
  IF op = "create_rsvp"
  THEN [live |-> h.live \/ status = 200, cancelled |-> FALSE]
  ELSE IF op = "cancel_rsvp"
  THEN [live |-> h.live /\ status # 200, cancelled |-> status = 200]
  ELSE IF op = "get_rsvp_status"
  THEN [h EXCEPT !.cancelled = FALSE]
  ELSE h

\* the response is sent; get_db's finally closes the session
get_db_close(p) ==
  /\ pc[p] = "responded"
  /\ sessions' = CloseSession(sessions, db[p], resp[p].status)
  /\ db' = [db EXCEPT ![p] = NoSession]
  /\ hist' = [x \in Pairs |->
                IF x = <<req[p].event_id, req[p].email>>
                THEN Recorded(hist[x], req[p].op, resp[p].status)
                ELSE hist[x]]
  /\ pc' = [pc EXCEPT ![p] = "idle"]
  /\ req' = [req EXCEPT ![p] = NoRequest]
  /\ loc' = [loc EXCEPT ![p] = NoLocals]
  /\ resp' = [resp EXCEPT ![p] = NoResponse]
  /\ wrote' = [wrote EXCEPT ![p] = FALSE]
  /\ StoreUnchanged

\* ----------------------------------------------------------- create_event
\* event_date = datetime.strptime(date, "%Y-%m-%d %H:%M"), then the test
\* "flyer and flyer.filename"
create_event_parse(p) ==
  /\ pc[p] = "create_event_parse"
  /\ IF strptime(req[p].date) = ValueError
     THEN /\ Respond(p, HTTPException(400, "Invalid date format. Use YYYY-MM-DD HH:MM"))
          /\ loc' = loc
     ELSE /\ Goto(p, IF req[p].flyer = "file" THEN "create_event_upload"
                     ELSE "create_event_commit")
          /\ loc' = [loc EXCEPT ![p].date = <<strptime(req[p].date)>>]
  /\ ReadStep(p)

\* faulty variant: the event is added and committed before the upload is tried
create_event_upload_after_insert(p) ==
  /\ pc[p] = "create_event_upload"
  /\ events' = events \cup
       {[id |-> nextEventId, title |-> Title, description |-> Description,
         date |-> loc[p].date[1], location |-> Location, flyer_url |-> "None"]}
  /\ nextEventId' = nextEventId + 1
  /\ \E uploaded \in BOOLEAN :
       IF uploaded
       THEN /\ Goto(p, "create_event_refresh")
            /\ loc' = [loc EXCEPT ![p].event = <<[id |-> nextEventId, flyer_url |-> "None"]>>]
       ELSE /\ Respond(p, HTTPException(400, "Failed to upload flyer"))
            /\ loc' = loc
  /\ UNCHANGED <<rsvps, nextRsvpId>>
  /\ FrameStep(p)

\* cloudinary.uploader.upload(...): the secure_url, or an exception
create_event_upload(p) ==
  /\ pc[p] = "create_event_upload"
  /\ \E uploaded \in BOOLEAN :
       IF uploaded
       THEN /\ Goto(p, "create_event_commit")
            /\ loc' = [loc EXCEPT ![p].flyer_url = "https://flyer"]
       ELSE /\ Respond(p, HTTPException(400, "Failed to upload flyer"))
            /\ loc' = loc
  /\ ReadStep(p)

\* the row that Event(...), db.add and db.commit insert
NewEvent(id, date, flyer_url) ==
  [id |-> id, title |-> Title, description |-> Description, date |-> date,
   location |-> Location, flyer_url |-> flyer_url]

\* db.add(db_event); db.commit()
create_event_commit(p) ==
  /\ pc[p] = "create_event_commit"
  /\ \E committed \in BOOLEAN :
       IF committed
       THEN /\ events' = events \cup {NewEvent(nextEventId, loc[p].date[1], loc[p].flyer_url)}
            /\ nextEventId' = nextEventId + 1
            /\ loc' = [loc EXCEPT ![p].event =
                         <<NewEvent(nextEventId, loc[p].date[1], loc[p].flyer_url)>>]
            /\ Goto(p, "create_event_refresh")
       ELSE /\ UNCHANGED <<events, nextEventId, loc>>
            /\ Respond(p, StoreError)
  /\ UNCHANGED <<rsvps, nextRsvpId>>
  /\ FrameStep(p)

\* db.refresh(db_event); return db_event
create_event_refresh(p) ==
  /\ pc[p] = "create_event_refresh"
  /\ IF FindEvent(events, loc[p].event[1].id) = <<>>
     THEN /\ Respond(p, StoreError)
          /\ loc' = loc
     ELSE /\ Goto(p, "serialize_events")
          /\ loc' = [loc EXCEPT ![p].event = FindEvent(events, loc[p].event[1].id)]
  /\ ReadStep(p)

\* ------------------------------------------------- get_events, get_event
\* db.query(Event).order_by(Event.date.desc()).all()
get_events_query(p) ==
  /\ pc[p] = "get_events_query"
  /\ \E listed \in OrderByDateDesc(events) :
       loc' = [loc EXCEPT ![p].event = listed]
  /\ Goto(p, "serialize_events")
  /\ ReadStep(p)

\* db.query(Event).filter(Event.id == event_id).first()
get_event_query(p) ==
  /\ pc[p] = "get_event_query"
  /\ IF FindEvent(events, req[p].event_id) = <<>>
     THEN /\ Respond(p, HTTPException(404, "Event not found"))
          /\ loc' = loc
     ELSE /\ Goto(p, "serialize_events")
          /\ loc' = [loc EXCEPT ![p].event = FindEvent(events, req[p].event_id)]
  /\ ReadStep(p)

\* response_model=EventResponse: each event's rsvps relationship is loaded
\* and the events are serialized
serialize_events(p) ==
  /\ pc[p] = "serialize_events"
  /\ \E loaded \in [1..Len(loc[p].event) ->
                      UNION {Orderings(RsvpsOfEvent(rsvps, e.id)) : e \in events}] :
       /\ \A i \in 1..Len(loc[p].event) :
            loaded[i] \in Orderings(RsvpsOfEvent(rsvps, loc[p].event[i].id))
       /\ Respond(p, Serialize(EventResponse,
            [i \in 1..Len(loc[p].event) |->
               WithAttr(loc[p].event[i], "rsvps", Serialize(RSVPResponse, loaded[i]).body)]))
  /\ loc' = loc
  /\ ReadStep(p)

\* ------------------------------------------------------------ create_rsvp
\* faulty variant: the handler does not look the event up
create_rsvp_skip_event_check(p) ==
  /\ pc[p] = "create_rsvp_check_event"
  /\ Goto(p, "create_rsvp_check_dup")
  /\ loc' = loc
  /\ ReadStep(p)

\* event = db.query(Event).filter(Event.id == event_id).first()
create_rsvp_check_event(p) ==
  /\ pc[p] = "create_rsvp_check_event"
  /\ IF FindEvent(events, req[p].event_id) = <<>>
     THEN Respond(p, HTTPException(404, "Event not found"))
     ELSE Goto(p, "create_rsvp_check_dup")
  /\ loc' = loc
  /\ ReadStep(p)

\* faulty variant: the RSVP is added and committed before the duplicate is looked for
create_rsvp_add_then_check(p) ==
  /\ pc[p] = "create_rsvp_check_dup"
  /\ rsvps' = rsvps \cup
       {[id |-> nextRsvpId, event_id |-> req[p].event_id, name |-> req[p].name,
         email |-> req[p].email]}
  /\ nextRsvpId' = nextRsvpId + 1
  /\ IF MatchingRsvps(rsvps, req[p].event_id, req[p].email) # {}
     THEN /\ Respond(p, HTTPException(400, "You have already RSVPed to this event"))
          /\ loc' = loc
     ELSE /\ Goto(p, "create_rsvp_refresh")
          /\ loc' = [loc EXCEPT ![p].rsvp = <<[id |-> nextRsvpId]>>]
  /\ UNCHANGED <<events, nextEventId>>
  /\ FrameStep(p)

\* existing_rsvp = db.query(RSVP).filter(...).first()
create_rsvp_check_dup(p) ==
  /\ pc[p] = "create_rsvp_check_dup"
  /\ IF MatchingRsvps(rsvps, req[p].event_id, req[p].email) # {}
     THEN Respond(p, HTTPException(400, "You have already RSVPed to this event"))
     ELSE Goto(p, "create_rsvp_commit")
  /\ loc' = loc
  /\ ReadStep(p)

\* the row that RSVP(...), db.add and db.commit insert
NewRsvp(id, event_id, name, email) ==
  [id |-> id, event_id |-> event_id, name |-> name, email |-> email]

\* db.add(db_rsvp); db.commit()
create_rsvp_commit(p) ==
  /\ pc[p] = "create_rsvp_commit"
  /\ \E committed \in BOOLEAN :
       IF committed
       THEN /\ rsvps' = rsvps \cup
                  {NewRsvp(nextRsvpId, req[p].event_id, req[p].name, req[p].email)}
            /\ nextRsvpId' = nextRsvpId + 1
            /\ loc' = [loc EXCEPT ![p].rsvp =
                         <<NewRsvp(nextRsvpId, req[p].event_id, req[p].name, req[p].email)>>]
            /\ Goto(p, "create_rsvp_refresh")
       ELSE /\ UNCHANGED <<rsvps, nextRsvpId, loc>>
            /\ Respond(p, StoreError)
  /\ UNCHANGED <<events, nextEventId>>
  /\ FrameStep(p)

\* db.refresh(db_rsvp); return db_rsvp
create_rsvp_refresh(p) ==
  /\ pc[p] = "create_rsvp_refresh"
  /\ IF \E r \in rsvps : r.id = loc[p].rsvp[1].id
     THEN Respond(p, Serialize(RSVPResponse,
            <<CHOOSE r \in rsvps : r.id = loc[p].rsvp[1].id>>))
     ELSE Respond(p, StoreError)
  /\ loc' = loc
  /\ ReadStep(p)

\* -------------------------------------------------------- get_event_rsvps
get_event_rsvps_check_event(p) ==
  /\ pc[p] = "get_event_rsvps_check_event"
  /\ IF FindEvent(events, req[p].event_id) = <<>>
     THEN Respond(p, HTTPException(404, "Event not found"))
     ELSE Goto(p, "get_event_rsvps_query")
  /\ loc' = loc
  /\ ReadStep(p)

\* db.query(RSVP).filter(RSVP.event_id == event_id).all()
get_event_rsvps_query(p) ==
  /\ pc[p] = "get_event_rsvps_query"
  /\ \E listed \in Orderings(RsvpsOfEvent(rsvps, req[p].event_id)) :
       Respond(p, Serialize(RSVPResponse, listed))
  /\ loc' = loc
  /\ ReadStep(p)

\* ------------------------------------------------------ set_rsvp_deadline
set_rsvp_deadline_check_event(p) ==
  /\ pc[p] = "set_rsvp_deadline_check_event"
  /\ IF FindEvent(events, req[p].event_id) = <<>>
     THEN /\ Respond(p, HTTPException(404, "Event not found"))
          /\ loc' = loc
     ELSE /\ Goto(p, "set_rsvp_deadline_commit")
          /\ loc' = [loc EXCEPT ![p].event = FindEvent(events, req[p].event_id)]
  /\ ReadStep(p)

\* event.rsvp_deadline = deadline; db.commit()
set_rsvp_deadline_commit(p) ==
  /\ pc[p] = "set_rsvp_deadline_commit"
  /\ \E committed \in BOOLEAN :
       IF committed
       THEN /\ events' = UpdateRow(events,
                  Flush(EventColumns,
                        WithAttr(loc[p].event[1], "rsvp_deadline", req[p].deadline[1])))
            /\ loc' = [loc EXCEPT ![p].event =
                  <<WithAttr(loc[p].event[1], "rsvp_deadline", req[p].deadline[1])>>]
            /\ Goto(p, "set_rsvp_deadline_refresh")
       ELSE /\ UNCHANGED <<events, loc>>
            /\ Respond(p, StoreError)
  /\ UNCHANGED <<rsvps, nextEventId, nextRsvpId>>
  /\ FrameStep(p)

\* the attributes of an instance after db.refresh: the mapped columns are
\* read again from the row, the other attributes stay as they are
Refreshed(obj, row) ==
  [f \in DOMAIN obj |-> IF f \in DOMAIN row THEN row[f] ELSE obj[f]]

\* db.refresh(event); return event, under response_model=RSVPResponse
set_rsvp_deadline_refresh(p) ==
  /\ pc[p] = "set_rsvp_deadline_refresh"
  /\ IF FindEvent(events, req[p].event_id) = <<>>
     THEN Respond(p, StoreError)
     ELSE Respond(p, Serialize(RSVPResponse,
            <<Refreshed(loc[p].event[1], FindEvent(events, req[p].event_id)[1])>>))
  /\ loc' = loc
  /\ ReadStep(p)

\* -------------------------------------------------------- get_rsvp_status
get_rsvp_status_check_event(p) ==
  /\ pc[p] = "get_rsvp_status_check_event"
  /\ IF FindEvent(events, req[p].event_id) = <<>>
     THEN Respond(p, HTTPException(404, "Event not found"))
     ELSE Goto(p, "get_rsvp_status_query")
  /\ loc' = loc
  /\ ReadStep(p)

\* rsvp = db.query(RSVP).filter(...).first()
get_rsvp_status_query(p) ==
  /\ pc[p] = "get_rsvp_status_query"
  /\ IF MatchingRsvps(rsvps, req[p].event_id, req[p].email) = {}
     THEN Respond(p, HTTPException(404, "RSVP not found"))
     ELSE \E r \in MatchingRsvps(rsvps, req[p].event_id, req[p].email) :
            Respond(p, Serialize(RSVPResponse, <<r>>))
  /\ loc' = loc
  /\ ReadStep(p)

\* ------------------------------------------------------------ cancel_rsvp
cancel_rsvp_check_event(p) ==
  /\ pc[p] = "cancel_rsvp_check_event"
  /\ IF FindEvent(events, req[p].event_id) = <<>>
     THEN Respond(p, HTTPException(404, "Event not found"))
     ELSE Goto(p, "cancel_rsvp_query")
  /\ loc' = loc
  /\ ReadStep(p)

\* rsvp = db.query(RSVP).filter(...).first()
cancel_rsvp_query(p) ==
  /\ pc[p] = "cancel_rsvp_query"
  /\ IF MatchingRsvps(rsvps, req[p].event_id, req[p].email) = {}
     THEN /\ Respond(p, HTTPException(404, "RSVP not found"))
          /\ loc' = loc
     ELSE \E r \in MatchingRsvps(rsvps, req[p].event_id, req[p].email) :
            /\ Goto(p, "cancel_rsvp_commit")
            /\ loc' = [loc EXCEPT ![p].rsvp = <<r>>]
  /\ ReadStep(p)

\* db.delete(rsvp); db.commit(); return rsvp
cancel_rsvp_commit(p) ==
  /\ pc[p] = "cancel_rsvp_commit"
  /\ \E committed \in BOOLEAN :
       IF committed
       THEN /\ rsvps' = DeleteRow(rsvps, loc[p].rsvp[1])
            /\ Respond(p, Serialize(RSVPResponse, loc[p].rsvp))
       ELSE /\ rsvps' = rsvps
            /\ Respond(p, StoreError)
  /\ loc' = loc
  /\ UNCHANGED <<events, nextEventId, nextRsvpId>>
  /\ FrameStep(p)

\* ---------------------------------------------------------- specifications
EventSteps(p) ==
  \/ create_event_parse(p)
  \/ create_event_upload(p)
  \/ create_event_commit(p)
  \/ create_event_refresh(p)
  \/ serialize_events(p)
  \/ get_db_close(p)

ReadEventSteps(p) ==
  \/ get_events_query(p)
  \/ get_event_query(p)
  \/ set_rsvp_deadline_check_event(p)
  \/ set_rsvp_deadline_commit(p)
  \/ set_rsvp_deadline_refresh(p)

CreateRsvpSteps(p) ==
  \/ create_rsvp_check_event(p)
  \/ create_rsvp_check_dup(p)
  \/ create_rsvp_commit(p)
  \/ create_rsvp_refresh(p)

CancelRsvpSteps(p) ==
  \/ cancel_rsvp_check_event(p)
  \/ cancel_rsvp_query(p)
  \/ cancel_rsvp_commit(p)

ReadRsvpSteps(p) ==
  \/ get_event_rsvps_check_event(p)
  \/ get_event_rsvps_query(p)
  \/ get_rsvp_status_check_event(p)
  \/ get_rsvp_status_query(p)

\* Spec: every operation, one request at a time, events of one date
SpecRequests == Requests(Operations, MaxRsvpEvents + 1, {D1, B1, B2}, Names, Emails)
Next ==
  \E p \in SeqClients :
    \/ Request(p, SpecRequests, MaxRsvpEvents)
    \/ EventSteps(p)
    \/ ReadEventSteps(p)
    \/ CreateRsvpSteps(p)
    \/ CancelRsvpSteps(p)
    \/ ReadRsvpSteps(p)
Spec == Init /\ [][Next]_vars

\* SpecEvents: the operations on events with every date, and the RSVPs of
\* one attendee, one request at a time
EventsRequests ==
  Requests({"create_event", "get_events", "get_event", "set_rsvp_deadline", "create_rsvp"},
           MaxEvents + 1, DateInputs, {"Ann"}, {"a@x.org"})
NextEvents ==
  \E p \in SeqClients :
    \/ Request(p, EventsRequests, MaxEvents)
    \/ EventSteps(p)
    \/ ReadEventSteps(p)
    \/ CreateRsvpSteps(p)
SpecEvents == Init /\ [][NextEvents]_vars

\* SpecConc: the steps of the requests of the clients interleave
ConcRequests ==
  Requests({"create_event", "create_rsvp", "cancel_rsvp"},
           MaxRsvpEvents + 1, {D1, B1}, {"Ann"}, {"a@x.org"})
NextConc ==
  \E p \in Clients :
    \/ Request(p, ConcRequests, MaxRsvpEvents)
    \/ EventSteps(p)
    \/ CreateRsvpSteps(p)
    \/ CancelRsvpSteps(p)
SpecConc == Init /\ [][NextConc]_vars

\* SpecSessions: interleaved requests that between them leave a handler by a
\* return, by a 400 (date, upload), by a 404 and by a store error
SessionsRequests ==
  Requests({"create_event", "get_event"}, MaxRsvpEvents + 1, {D1, B1}, {}, {})
NextSessions ==
  \E p \in Clients :
    \/ Request(p, SessionsRequests, MaxRsvpEvents)
    \/ EventSteps(p)
    \/ get_event_query(p)
SpecSessions == Init /\ [][NextSessions]_vars

\* ------------------------------------------------------------------ claims
Responded(p, op) == pc[p] = "responded" /\ req[p].op = op
EventExists(p) == FindEvent(events, req[p].event_id) # <<>>
PairOf(p) == <<req[p].event_id, req[p].email>>
RsvpsOfPair(p) == MatchingRsvps(rsvps, req[p].event_id, req[p].email)
RsvpOperations == {"create_rsvp", "get_event_rsvps", "get_rsvp_status", "cancel_rsvp"}

\* C1: however the steps of create_rsvp and cancel_rsvp requests interleave,
\* the rsvps table holds at most one row for each (event_id, email).
AtMostOneRsvpPerPair ==
  \A r1, r2 \in rsvps :
    (r1.event_id = r2.event_id /\ r1.email = r2.email) => r1 = r2

\* C2: a create_rsvp for a pair on which a create_rsvp has succeeded, with no
\* successful cancel since, gets the 400 conflict and inserts nothing, whoever
\* submitted first; one for a pair with no such submission never gets the 400,
\* and its success inserts the one row of the pair, with the submitter's name.
DuplicateRsvpRejected ==
  \A p \in Clients :
    (Responded(p, "create_rsvp") /\ EventExists(p)) =>
      IF hist[PairOf(p)].live
      THEN /\ resp[p] = HTTPException(400, "You have already RSVPed to this event")
           /\ ~wrote[p]
           /\ Cardinality(RsvpsOfPair(p)) = 1
      ELSE /\ resp[p].status # 400
           /\ resp[p].status = 200 =>
                /\ wrote[p]
                /\ Cardinality(RsvpsOfPair(p)) = 1
                /\ \A r \in RsvpsOfPair(p) : r.name = req[p].name /\ resp[p].body = <<r>>

\* C2 witness: the second submission, under another name, has got the 400
DuplicateRsvpRejectedWitness ==
  \E p \in Clients :
    /\ Responded(p, "create_rsvp")
    /\ hist[PairOf(p)].live
    /\ resp[p].status = 400
    /\ \E r \in RsvpsOfPair(p) : r.name # req[p].name

\* the rsvp_deadline stored for an event row: <<d>>, or <<>> when none is
StoredDeadline(row) ==
  IF "rsvp_deadline" \in DOMAIN row THEN <<row.rsvp_deadline>> ELSE <<>>

\* C3: set_rsvp_deadline(d) on an existing event answers 200 with the updated
\* event and leaves d as the event's stored rsvp_deadline (store errors aside);
\* on a missing event it answers 404.
DeadlineStored ==
  \A p \in Clients :
    (Responded(p, "set_rsvp_deadline") /\ resp[p] # StoreError) =>
      IF EventExists(p)
      THEN /\ resp[p].status = 200
           /\ StoredDeadline(FindEvent(events, req[p].event_id)[1]) = req[p].deadline
      ELSE resp[p] = HTTPException(404, "Event not found")

EventNotFoundFirst ==
  \A p \in Clients :
    (pc[p] = "responded" /\ req[p].op \in RsvpOperations /\ ~EventExists(p)) =>
      /\ resp[p] = HTTPException(404, "Event not found")
      /\ ~wrote[p]
      /\ \A r \in rsvps : r.event_id # req[p].event_id

\* C5 witness: a cancel_rsvp on a missing event has answered, with RSVPs in
\* the table
EventNotFoundFirstWitness ==
  \E p \in Clients :
    /\ Responded(p, "cancel_rsvp")
    /\ ~EventExists(p)
    /\ resp[p].status = 404
    /\ rsvps # {}

\* C6: a create_event whose upload fails answers 400 and has inserted no
\* event; an event inserted by a create_event with a flyer carries the URL of
\* a finished upload.
UploadFailureInsertsNothing ==
  \A p \in Clients :
    /\ (Responded(p, "create_event")
          /\ resp[p] = HTTPException(400, "Failed to upload flyer")) =>
         (~wrote[p] /\ req[p].flyer = "file")
    /\ (req[p].op = "create_event" /\ req[p].flyer = "file" /\ wrote[p]) =>
         (loc[p].flyer_url # "None" /\ loc[p].event[1].flyer_url = loc[p].flyer_url)

\* C6 witness: the upload has failed with events already stored
UploadFailureInsertsNothingWitness ==
  \E p \in Clients :
    /\ Responded(p, "create_event")
    /\ resp[p] = HTTPException(400, "Failed to upload flyer")
    /\ events # {}

\* C7: a request that ends in a 400 or a 404 has changed no table.
FailureWritesNothing ==
  \A p \in Clients :
    (pc[p] = "responded" /\ resp[p].status \in {400, 404}) => ~wrote[p]

\* C7 witness: the duplicate RSVP has been refused
FailureWritesNothingWitness ==
  \E p \in Clients :
    /\ Responded(p, "create_rsvp")
    /\ resp[p].status = 400
    /\ RsvpsOfPair(p) # {}

\* C8: get_events answers 200 with every stored event exactly once, each
\* adjacent pair in descending order of date.
ListOrdered ==
  \A p \in Clients :
    Responded(p, "get_events") =>
      /\ resp[p].status = 200
      /\ Len(resp[p].body) = Cardinality(events)
      /\ {resp[p].body[i].id : i \in 1..Len(resp[p].body)} = {e.id : e \in events}
      /\ \A i \in 1..Len(resp[p].body) :
           \E e \in events : \A f \in EventColumns : resp[p].body[i][f] = e[f]
      /\ \A i \in 1..(Len(resp[p].body) - 1) :
           DateKey(resp[p].body[i].date) >= DateKey(resp[p].body[i + 1].date)

\* C8 witness: two events inserted in ascending order of date are listed
ListOrderedWitness ==
  \E p \in Clients :
    /\ Responded(p, "get_events")
    /\ Len(resp[p].body) = 2
    /\ resp[p].body[1].id > resp[p].body[2].id
    /\ DateKey(resp[p].body[1].date) > DateKey(resp[p].body[2].date)

\* C9: no step changes a field of a stored event other than the rsvp_deadline
\* of the event a set_rsvp_deadline is committing, no step removes an event or
\* changes an RSVP, and an RSVP is removed only by the commit of a successful
\* cancel_rsvp for its own (event_id, email), which removes no other RSVP.
WriteOnce ==
  [][/\ \A e \in events :
          \E e2 \in events' :
            /\ e2.id = e.id
            /\ \A f \in DOMAIN e \ {"rsvp_deadline"} : f \in DOMAIN e2 /\ e2[f] = e[f]
            /\ e2 # e =>
                 \E p \in Clients :
                   pc[p] = "set_rsvp_deadline_commit" /\ req[p].event_id = e.id
     /\ \A r \in rsvps :
          \/ r \in rsvps'
          \/ /\ rsvps' = rsvps \ {r}
             /\ \E p \in Clients :
                  /\ pc[p] = "cancel_rsvp_commit"
                  /\ pc'[p] = "responded"
                  /\ resp'[p].status = 200
                  /\ req[p].event_id = r.event_id
                  /\ req[p].email = r.email]_vars

\* C9 witness: a cancel has succeeded and left another RSVP of the event
WriteOnceWitness ==
  \E p \in Clients :
    /\ Responded(p, "cancel_rsvp")
    /\ resp[p].status = 200
    /\ \E r \in rsvps : r.event_id = req[p].event_id

\* C10: every request in flight has a session of its own, open and shared
\* with no other request; when the request has finished, however its handler
\* ended, the session is closed: the open sessions are those of the requests
\* in flight.
SessionPerRequest ==
  /\ \A p \in Clients : pc[p] = "idle" <=> db[p] = NoSession
  /\ \A p, q \in Clients : (p # q /\ pc[p] # "idle" /\ pc[q] # "idle") => db[p] # db[q]
  /\ sessions = {db[p] : p \in {q \in Clients : pc[q] # "idle"}}

\* C10 witness: after a create_event has finished, two requests are in
\* flight, one of them ended by an exception
SessionPerRequestWitness ==
  \E p, q \in Clients :
    /\ events # {}
    /\ pc[p] \notin {"idle", "responded"}
    /\ pc[q] = "responded"
    /\ resp[q].status # 200
    /\ sessions = {db[p], db[q]}
    /\ db[p] # db[q]
====
